---- MODULE Spec2Model ----
(***************************************************************************)
(* Model of the network-health dashboard (src/dash_app/app.py): the record *)
(* store reader parse_log, the time-window filter, the memoized            *)
(* get_filtered_data, the Dash callbacks fetch_data / update_dashboard /   *)
(* trigger_power_cycle; and of the smart-plug power-cycle script            *)
(* (src/scripts/power_cycle_p100.py): is_in_cooldown, control_tapo,         *)
(* handle_exception.  Time is counted in seconds.                           *)
(***************************************************************************)
EXTENDS Integers, Sequences, FiniteSets, TLC

VARIABLES
    now,            \* wall clock, seconds (datetime.datetime.now())
    ticks,          \* number of events so far (bounds the run)
    db,             \* the SQLite store: [mode, rows]
    openConns,      \* connections opened by parse_log and never closed by it
    cache,          \* the Redis cache behind @cache.memoize: key -> entry
    dateRange,      \* value of 'date-range-dropdown'
    metrics,        \* value of 'latency-metrics-checkbox'
    filteredData,   \* data of dcc.Store 'filtered-data'
    render,         \* the seven outputs of the last update_dashboard
    nClicks,        \* n_clicks of 'power-cycle-button'
    powerStatus,    \* children of 'power-cycle-status'
    last,           \* what the last event did (observation of the step)
    plug            \* the power-cycle script: its position, cooldown file, calls

vars == <<now, ticks, db, openConns, cache, dateRange, metrics, filteredData,
          render, nClicks, powerStatus, last, plug>>

-----------------------------------------------------------------------------
(* Bounds of the model *)

MaxTicks == 3
MaxRows == 3
MaxRuns == 2

-----------------------------------------------------------------------------
(* Generic helpers *)

Min2(a, b) == IF a <= b THEN a ELSE b

-----------------------------------------------------------------------------
(* Values.  A numeric cell after pd.to_numeric(errors='coerce') is a number  *)
(* or NaN; a timestamp after pd.to_datetime is an instant or NaT.            *)

Num(v) == [nan |-> FALSE, v |-> v]
NaN == [nan |-> TRUE, v |-> 0]

Time(t) == [nat |-> FALSE, t |-> t]
NaT == [nat |-> TRUE, t |-> 0]

\* A stored cell: a number, or something that is not a number (text, NULL).
RawNum(v) == [kind |-> "num", v |-> v]
RawText == [kind |-> "text", v |-> 0]

\* A stored timestamp: a parseable instant, NULL, or unparseable text.
RawTime(t) == [kind |-> "time", t |-> t]
RawNullTime == [kind |-> "null", t |-> 0]
RawBadTime == [kind |-> "garbage", t |-> 0]

-----------------------------------------------------------------------------
(* Record Store Reader: parse_log *)

LATENCY_CAP == 500
PACKET_LOSS_CAP == 100

AllColumns == {"timestamp", "status_message", "success", "avg_latency_ms",
               "max_latency_ms", "min_latency_ms", "packet_loss"}

\* pd.DataFrame(): no columns, no rows.
EmptyDataFrame == [columns |-> {}, rows |-> <<>>]

DataFrame(columns, rows) == [columns |-> columns, rows |-> rows]

\* df.empty
IsEmpty(df) == df.columns = {} \/ Len(df.rows) = 0

\* pd.to_datetime on one cell (unparseable text raises for the whole column).
to_datetime(raw) == IF raw.kind = "time" THEN Time(raw.t) ELSE NaT

\* pd.to_numeric(errors='coerce') on one cell.
to_numeric(raw) == IF raw.kind = "num" THEN Num(raw.v) ELSE NaN

\* Series.clip(lower=0, upper=u): a clip that also raises negatives to 0.
clip_both(x, u) ==
    IF x.nan THEN x ELSE IF x.v > u THEN Num(u) ELSE IF x.v < 0 THEN Num(0) ELSE x

\* Series.clip(upper=u) on one cell: NaN stays NaN, no lower bound.
clip_upper(x, u) == IF x.nan THEN x ELSE IF x.v > u THEN Num(u) ELSE x

\* One row of the SELECT (with its column aliases), converted and clipped.
normalize_row(r) ==
    [timestamp      |-> to_datetime(r.timestamp),
     status_message |-> r.status,
     success        |-> to_numeric(r.success_percentage),
     avg_latency_ms |-> clip_upper(to_numeric(r.avg_latency_ms), LATENCY_CAP),
     max_latency_ms |-> clip_upper(to_numeric(r.max_latency_ms), LATENCY_CAP),
     min_latency_ms |-> clip_upper(to_numeric(r.min_latency_ms), LATENCY_CAP),
     packet_loss    |-> clip_upper(to_numeric(r.packet_loss), PACKET_LOSS_CAP)]

\* Whether sqlite3.connect(db_path) succeeds.
ConnectOk(d) == d.mode # "unreadable"

\* Whether the query and the conversions after it run through.
ReadOk(d) ==
    /\ d.mode = "ok"
    /\ \A i \in 1..Len(d.rows) : d.rows[i].timestamp.kind # "garbage"

\* parse_log without its except clause: a failed read raises.
parse_log_unguarded(d) ==
    IF ~ConnectOk(d)
    THEN [raised |-> TRUE, failed |-> TRUE, df |-> EmptyDataFrame,
          opened |-> 0, closed |-> 0]
    ELSE IF ~ReadOk(d)
    THEN [raised |-> TRUE, failed |-> TRUE, df |-> EmptyDataFrame,
          opened |-> 1, closed |-> 0]
    ELSE [raised |-> FALSE, failed |-> FALSE,
          df |-> DataFrame(AllColumns,
                          [i \in 1..Len(d.rows) |-> normalize_row(d.rows[i])]),
          opened |-> 1, closed |-> 1]

\* parse_log(db_path): the frame returned, whether it raised, and how many
\* connections it opened and closed.  conn.close() is the last statement of
\* the try body; the except clause returns an empty frame and closes nothing.
parse_log(d) ==
    IF ~ConnectOk(d)
    THEN [raised |-> FALSE, failed |-> TRUE, df |-> EmptyDataFrame,
          opened |-> 0, closed |-> 0]
    ELSE IF ~ReadOk(d)
    THEN [raised |-> FALSE, failed |-> TRUE, df |-> EmptyDataFrame,
          opened |-> 1, closed |-> 0]
    ELSE [raised |-> FALSE, failed |-> FALSE,
          df |-> DataFrame(AllColumns,
                          [i \in 1..Len(d.rows) |-> normalize_row(d.rows[i])]),
          opened |-> 1, closed |-> 1]

-----------------------------------------------------------------------------
(* Time-Window Filter: filter_data_by_date *)

BoundedRanges == {"last_12_hours", "last_24_hours", "last_48_hours", "last_7_days"}

\* pd.DateOffset(hours=12 | 24 | 48) and pd.DateOffset(days=7), in seconds.
WindowSeconds(date_range) ==
    CASE date_range = "last_12_hours" -> 12 * 3600
      [] date_range = "last_24_hours" -> 24 * 3600
      [] date_range = "last_48_hours" -> 48 * 3600
      [] date_range = "last_7_days"   -> 7 * 24 * 3600

\* log_data['timestamp'] > start_date: the edge of the window left out.
StrictlyAfter(row, start_date) ==
    /\ ~row.timestamp.nat
    /\ row.timestamp.t > start_date

\* log_data['timestamp'] >= start_date, row by row (NaT compares False).
AtOrAfter(row, start_date) ==
    /\ ~row.timestamp.nat
    /\ row.timestamp.t >= start_date

\* filter_data_by_date(log_data, date_range) evaluated when the clock reads t.
\* Indexing a frame without a 'timestamp' column raises KeyError.
filter_data_by_date(log_data, date_range, t) ==
    IF date_range \notin BoundedRanges
    THEN [raised |-> FALSE, df |-> log_data]
    ELSE IF "timestamp" \notin log_data.columns
    THEN [raised |-> TRUE, df |-> EmptyDataFrame]
    ELSE LET start_date == t - WindowSeconds(date_range)
             Keep(row) == AtOrAfter(row, start_date)
         IN [raised |-> FALSE,
             df |-> DataFrame(log_data.columns, SelectSeq(log_data.rows, Keep))]

-----------------------------------------------------------------------------
(* Result Cache: get_filtered_data under @cache.memoize(timeout=300) *)

columns_to_cache == {"timestamp", "success", "avg_latency_ms", "max_latency_ms",
                     "min_latency_ms", "packet_loss"}

\* df[cols].to_dict('records')
Project(row, cols) == [c \in cols |-> row[c]]
to_dict_records(df, cols) ==
    [i \in 1..Len(df.rows) |-> Project(df.rows[i], cols)]

\* The except branch of get_filtered_data once it has parsed again (p): filter
\* again, every column kept; an error here leaves the function.
fallback_after_parse(p, date_range, t, calls, opened, closed) ==
    LET f == filter_data_by_date(p.df, date_range, t)
        base == [parse_calls |-> calls + 1, read_failed |-> p.failed,
                 opened |-> opened + p.opened, closed |-> closed + p.closed,
                 fallback |-> TRUE]
    IN IF p.raised \/ f.raised
       THEN [raised |-> TRUE, rv |-> <<>>] @@ base
       ELSE [raised |-> FALSE,
             rv |-> IF IsEmpty(f.df) THEN <<>>
                    ELSE to_dict_records(f.df, f.df.columns)] @@ base

\* The except branch of get_filtered_data.
get_filtered_data_fallback(d, date_range, t, calls, opened, closed) ==
    fallback_after_parse(parse_log(d), date_range, t, calls, opened, closed)

\* The try body of get_filtered_data once it has parsed (p).
body_after_parse(p, d, date_range, t) ==
    LET base == [parse_calls |-> 1, read_failed |-> p.failed,
                 opened |-> p.opened, closed |-> p.closed, fallback |-> FALSE]
        f == filter_data_by_date(p.df, date_range, t)
    IN IF p.raised
       THEN get_filtered_data_fallback(d, date_range, t, 1, p.opened, p.closed)
       ELSE IF IsEmpty(p.df)
       THEN [raised |-> FALSE, rv |-> <<>>] @@ base
       ELSE IF f.raised
       THEN get_filtered_data_fallback(d, date_range, t, 1, p.opened, p.closed)
       ELSE IF IsEmpty(f.df)
       THEN [raised |-> FALSE, rv |-> <<>>] @@ base
       ELSE [raised |-> FALSE,
             rv |-> to_dict_records(f.df, columns_to_cache)] @@ base

\* The body of get_filtered_data (what runs when the memoizing wrapper calls
\* it), evaluated when the clock reads t.
get_filtered_data_body(d, date_range, t) ==
    body_after_parse(parse_log(d), d, date_range, t)

CACHE_TIMEOUT == 300

db_path == "logs/internet_status.db"

DateRanges == BoundedRanges \cup {"all_time"}

\* make_cache_key(get_filtered_data, db_path, date_range)
CacheKey(path, date_range) == <<path, date_range>>
Keys == {CacheKey(db_path, r) : r \in DateRanges}

\* A key the backend does not hold.  `source` is a history field: the state of
\* the store and the number of rows it held when the entry was computed (the
\* table only grows).
NoEntry == [present |-> FALSE, value |-> <<>>, stored_at |-> 0, expires_at |-> 0,
            source |-> [mode |-> "ok", n |-> 0]]

\* cache.get(key) finds the key: it was set and its timeout has not elapsed.
Found(c, key, t) ==
    /\ c[key].present
    /\ t < c[key].expires_at

\* CACHE_DEFAULT_TIMEOUT of the Cache configuration.
CACHE_DEFAULT_TIMEOUT == 60

\* cache.set with the configured default timeout instead of memoize's own.
cache_set_default_timeout(c, key, rv, t, d) ==
    [c EXCEPT ![key] = [present |-> TRUE, value |-> rv, stored_at |-> t,
                        expires_at |-> t + CACHE_DEFAULT_TIMEOUT,
                        source |-> [mode |-> d.mode, n |-> Len(d.rows)]]]

\* cache.set(key, rv, timeout=300)
cache_set(c, key, rv, t, d) ==
    [c EXCEPT ![key] = [present |-> TRUE, value |-> rv, stored_at |-> t,
                        expires_at |-> t + CACHE_TIMEOUT,
                        source |-> [mode |-> d.mode, n |-> Len(d.rows)]]]

\* The backend drops the keys whose timeout has elapsed at time t.
Expire(c, t) ==
    [k \in DOMAIN c |-> IF c[k].present /\ t >= c[k].expires_at
                        THEN NoEntry ELSE c[k]]

\* The function memoize() puts around get_filtered_data, given what the
\* function returns when called (body).  lookup_ok / store_ok say whether the
\* backend answers cache.get / cache.set; a backend error is logged by the
\* wrapper, which then calls the function itself.
memoize(c, d, key, t, lookup_ok, store_ok, body) ==
    IF ~lookup_ok
    THEN body @@ [hit |-> FALSE, wrote |-> FALSE, cache |-> c]
    ELSE IF Found(c, key, t)
    THEN [raised |-> FALSE, rv |-> c[key].value, parse_calls |-> 0,
          read_failed |-> FALSE, opened |-> 0, closed |-> 0,
          fallback |-> FALSE, hit |-> TRUE, wrote |-> FALSE, cache |-> c]
    ELSE IF body.raised \/ ~store_ok
    THEN body @@ [hit |-> FALSE, wrote |-> FALSE, cache |-> c]
    ELSE body @@ [hit |-> FALSE, wrote |-> TRUE,
                  cache |-> cache_set(c, key, body.rv, t, d)]

\* get_filtered_data(db_path, date_range) as decorated, called at time t.
get_filtered_data(c, d, date_range, t, lookup_ok, store_ok) ==
    memoize(c, d, CacheKey(db_path, date_range), t, lookup_ok, store_ok,
            get_filtered_data_body(d, date_range, t))

-----------------------------------------------------------------------------
(* Metrics Deriver: update_dashboard *)

ABSOLUTE_MAX_LATENCY == 500
ABSOLUTE_MAX_PACKET_LOSS == 100

LatencyMetrics == {"avg_latency_ms", "max_latency_ms", "min_latency_ms"}

\* Series.max() / DataFrame.max().max(): the largest number, NaN skipped;
\* NaN when there is no number at all.
RECURSIVE SeriesMax(_)
SeriesMax(s) ==
    IF s = <<>> THEN NaN
    ELSE LET rest == SeriesMax(Tail(s))
             x == Head(s)
         IN IF x.nan THEN rest
            ELSE IF rest.nan THEN x
            ELSE IF x.v >= rest.v THEN x ELSE rest

Column(rows, c) == [i \in 1..Len(rows) |-> rows[i][c]]

RECURSIVE Concat(_)
Concat(ss) == IF ss = <<>> THEN <<>> ELSE Head(ss) \o Concat(Tail(ss))

RECURSIVE SetToSeq(_)
SetToSeq(S) ==
    IF S = {} THEN <<>>
    ELSE LET x == CHOOSE y \in S : TRUE IN <<x>> \o SetToSeq(S \ {x})

\* data_max * 1.1 without the cap, in tenths.
BufferedMaxUncapped(data_max, absolute_max) ==
    IF data_max.nan THEN NaN ELSE Num(11 * data_max.v)

\* min(data_max * 1.1, absolute_max), in tenths; Python's min(nan, x) is nan.
BufferedMax(data_max, absolute_max) ==
    IF data_max.nan THEN NaN
    ELSE Num(Min2(11 * data_max.v, 10 * absolute_max))

\* calculate_y_range(data_series, absolute_max): the upper end, in tenths.
calculate_y_range(data_series, absolute_max) ==
    IF data_series = <<>> THEN Num(10 * absolute_max)
    ELSE BufferedMax(SeriesMax(data_series), absolute_max)

\* Order of DataFrame.sort_values('timestamp'): NaT last.
TimeBefore(a, b) ==
    IF a.timestamp.nat THEN FALSE
    ELSE IF b.timestamp.nat THEN TRUE
    ELSE a.timestamp.t < b.timestamp.t

TimeAfter(a, b) ==
    IF a.timestamp.nat THEN FALSE
    ELSE IF b.timestamp.nat THEN TRUE
    ELSE a.timestamp.t > b.timestamp.t

\* Whether row a comes before row b in the order asked for.
Precedes(a, b, ascending) ==
    IF ascending THEN TimeBefore(a, b) ELSE TimeAfter(a, b)

RECURSIVE Insert(_, _, _)
Insert(x, s, ascending) ==
    IF s = <<>> THEN <<x>>
    ELSE IF ~Precedes(Head(s), x, ascending) THEN <<x>> \o s
    ELSE <<Head(s)>> \o Insert(x, Tail(s), ascending)

\* DataFrame.sort_values('timestamp', ascending=...): rows with equal
\* timestamps keep their order.
RECURSIVE sort_values(_, _)
sort_values(s, ascending) ==
    IF s = <<>> THEN <<>>
    ELSE Insert(Head(s), sort_values(Tail(s), ascending), ascending)

\* 0 <= success <= 100: a partial count that takes in both ends.
IsPartiallyUpInclusive(row) ==
    ~row.success.nan /\ row.success.v >= 0 /\ row.success.v <= 100

\* The three status predicates of the count lines.
IsFullyUp(row) == ~row.success.nan /\ row.success.v = 100
IsPartiallyUp(row) == ~row.success.nan /\ row.success.v > 0 /\ row.success.v < 100
IsDown(row) == ~row.success.nan /\ row.success.v = 0

EmptyFig == [empty |-> TRUE]

\* What update_dashboard returns for an empty frame.
EmptyRender ==
    [raised |-> FALSE, success_fig |-> EmptyFig, latency_fig |-> EmptyFig,
     packetloss_fig |-> EmptyFig, table_data |-> <<>>,
     full_up |-> 0, partial_up |-> 0, down |-> 0]

RaisedRender == [EmptyRender EXCEPT !.raised = TRUE]

\* pd.DataFrame(filtered_data): the columns are the keys of the records.
FrameOf(filtered_data) ==
    IF filtered_data = <<>> THEN EmptyDataFrame
    ELSE DataFrame(DOMAIN filtered_data[1], filtered_data)

\* update_dashboard(filtered_data, selected_latency_metrics).  Indexing a
\* column the frame does not have raises KeyError.
update_dashboard(filtered_data, selected) ==
    LET df0 == FrameOf(filtered_data) IN
    IF IsEmpty(df0) THEN EmptyRender
    ELSE IF ~(({"timestamp", "success", "packet_loss"} \cup selected)
                  \subseteq df0.columns)
    THEN RaisedRender
    ELSE LET rows == sort_values(df0.rows, TRUE)
             max_latency ==
                 LET sel == SetToSeq(selected)
                 IN SeriesMax(Concat([i \in 1..Len(sel) |->
                                         Column(rows, sel[i])]))
         IN [raised |-> FALSE,
             success_fig |-> [empty |-> FALSE, traces |-> {"success"},
                              range_hi |-> Num(10 * 100), annotated |-> FALSE],
             latency_fig |->
                 IF selected # {}
                 THEN [empty |-> FALSE, traces |-> selected,
                       range_hi |-> BufferedMax(max_latency, ABSOLUTE_MAX_LATENCY),
                       annotated |-> FALSE]
                 ELSE [empty |-> FALSE, traces |-> {},
                       range_hi |-> Num(10 * ABSOLUTE_MAX_LATENCY),
                       annotated |-> TRUE],
             packetloss_fig |->
                 [empty |-> FALSE, traces |-> {"packet_loss"},
                  range_hi |-> calculate_y_range(Column(rows, "packet_loss"),
                                                 ABSOLUTE_MAX_PACKET_LOSS),
                  annotated |-> FALSE],
             table_data |-> sort_values(rows, FALSE),
             full_up |-> Cardinality({i \in 1..Len(rows) : IsFullyUp(rows[i])}),
             partial_up |-> Cardinality({i \in 1..Len(rows) : IsPartiallyUp(rows[i])}),
             down |-> Cardinality({i \in 1..Len(rows) : IsDown(rows[i])})]

-----------------------------------------------------------------------------
(* Device Action Trigger: trigger_power_cycle *)

\* What subprocess.run(..., check=True, capture_output=True) can do: return
\* (exit status 0), raise CalledProcessError (non-zero exit, stderr captured),
\* or raise OSError because the interpreter cannot be started.
StderrTexts == {"", "Traceback"}
PowerOutcomes ==
    {[kind |-> "exit_0", stderr |-> ""], [kind |-> "os_error", stderr |-> ""]}
    \cup {[kind |-> "exit_nonzero", stderr |-> e] : e \in StderrTexts}

NoStatus == [kind |-> "empty", at |-> 0, stderr |-> ""]

\* trigger_power_cycle(n_clicks) when the clock reads t and the command ends
\* as `outcome`.  Only CalledProcessError is caught.
trigger_power_cycle(n_clicks, outcome, t) ==
    IF n_clicks > 0
    THEN CASE outcome.kind = "exit_0" ->
                [raised |-> FALSE, ran |-> TRUE,
                 text |-> [kind |-> "triggered", at |-> t, stderr |-> ""]]
           [] outcome.kind = "exit_nonzero" ->
                [raised |-> FALSE, ran |-> TRUE,
                 text |-> [kind |-> "failed", at |-> 0, stderr |-> outcome.stderr]]
           [] OTHER ->
                [raised |-> TRUE, ran |-> TRUE, text |-> NoStatus]
    ELSE [raised |-> FALSE, ran |-> FALSE, text |-> NoStatus]

-----------------------------------------------------------------------------
(* Refresh Trigger: the callbacks and the components that fire them *)

\* fetch_data also listening to the metric checklist.
fetch_data_inputs_with_metrics ==
    {"interval-component", "date-range-dropdown", "latency-metrics-checkbox"}

fetch_data_inputs == {"interval-component", "date-range-dropdown"}
update_dashboard_inputs == {"filtered-data", "latency-metrics-checkbox"}
trigger_power_cycle_inputs == {"power-cycle-button"}

AllInputs == fetch_data_inputs \cup update_dashboard_inputs
                 \cup trigger_power_cycle_inputs

Triggered(inputs, changed) == inputs \cap changed # {}

\* fetch_data(n, date_range)
fetch_data(c, d, date_range, t, lookup_ok, store_ok) ==
    get_filtered_data(c, d, date_range, t, lookup_ok, store_ok)

INTERVAL_SECONDS == 1800

DefaultDateRange == "last_12_hours"
DefaultMetrics == LatencyMetrics

\* The outputs and the observation of one round of callbacks, given what
\* each callback returns: g of fetch_data, u of update_dashboard, p of
\* trigger_power_cycle.  A callback that raises updates no output.
Outputs(event, t, dr, c0, data, runFetch, runUpdate, runPower, lookup_ok, store_ok, outcome, g, u, p) ==
    /\ cache' = IF runFetch THEN g.cache ELSE c0
    /\ openConns' = IF runFetch THEN openConns + g.opened - g.closed
                                ELSE openConns
    /\ filteredData' = data
    /\ render' = IF runUpdate /\ ~u.raised THEN u ELSE render
    /\ powerStatus' = IF runPower /\ ~p.raised THEN p.text ELSE powerStatus
    /\ last' = [event |-> event, at |-> t, date_range |-> dr,
                fetched |-> runFetch,
                lookup_ok |-> runFetch /\ lookup_ok,
                store_ok |-> runFetch /\ store_ok,
                hit |-> runFetch /\ g.hit,
                wrote |-> runFetch /\ g.wrote,
                fallback |-> runFetch /\ g.fallback,
                parse_calls |-> IF runFetch THEN g.parse_calls ELSE 0,
                read_failed |-> runFetch /\ g.read_failed,
                conn_left_open |-> runFetch /\ g.opened > g.closed,
                fetch_raised |-> runFetch /\ g.raised,
                updated |-> runUpdate,
                update_raised |-> runUpdate /\ u.raised,
                power_called |-> runPower,
                power_ran |-> runPower /\ p.ran,
                power_raised |-> runPower /\ p.raised,
                outcome |-> IF runPower /\ p.ran THEN outcome.kind ELSE "none",
                stderr |-> IF runPower /\ p.ran THEN outcome.stderr ELSE ""]

\* The second half of a round: a new 'filtered-data' (fetch_data returned g)
\* runs update_dashboard in turn.
AfterFetch(event, changed, t, dr, ms, n, store0, lookup_ok, store_ok, outcome, c0, runFetch, g) ==
    LET stored == runFetch /\ ~g.raised
        data == IF stored THEN g.rv ELSE store0
        runUpdate == Triggered(update_dashboard_inputs,
                               changed \cup (IF stored THEN {"filtered-data"}
                                                       ELSE {}))
        runPower == Triggered(trigger_power_cycle_inputs, changed)
    IN Outputs(event, t, dr, c0, data, runFetch, runUpdate, runPower,
               lookup_ok, store_ok, outcome, g, update_dashboard(data, ms),
               trigger_power_cycle(n, outcome, t))

\* One round of callbacks: the components in `changed` changed at time t; the
\* callbacks having one of them as Input run.
Dispatch(event, changed, t, dr, ms, n, store0, lookup_ok, store_ok, outcome) ==
    AfterFetch(event, changed, t, dr, ms, n, store0, lookup_ok, store_ok,
               outcome, Expire(cache, t),
               Triggered(fetch_data_inputs, changed),
               fetch_data(Expire(cache, t), db, dr, t, lookup_ok, store_ok))

Idle ==
    [event |-> "none", at |-> 0, date_range |-> DefaultDateRange,
     fetched |-> FALSE, lookup_ok |-> FALSE, store_ok |-> FALSE, hit |-> FALSE,
     wrote |-> FALSE, fallback |-> FALSE, parse_calls |-> 0,
     read_failed |-> FALSE, conn_left_open |-> FALSE, fetch_raised |-> FALSE,
     updated |-> FALSE, update_raised |-> FALSE, power_called |-> FALSE,
     power_ran |-> FALSE, power_raised |-> FALSE, outcome |-> "none",
     stderr |-> ""]

-----------------------------------------------------------------------------
(* The stored table internet_status and the rows the model draws from *)

StoredRow(ts, st, su, av, mx, mn, pl) ==
    [timestamp |-> ts, status |-> st, success_percentage |-> su,
     avg_latency_ms |-> av, max_latency_ms |-> mx, min_latency_ms |-> mn,
     packet_loss |-> pl]

\* The instant the stored rows are placed around: a row stamped Epoch - w is
\* on the edge of window w when the clock reads Epoch, which it does one
\* cache timeout after the start.
Epoch == CACHE_TIMEOUT

\* Rows on the edge of each window, a current one and one without timestamp;
\* numeric cells in range, over the caps, at the caps, negative, out of range
\* and not numeric.
Row12h == StoredRow(RawTime(Epoch - 12 * 3600), "up", RawNum(100),
                    RawNum(20), RawNum(30), RawNum(10), RawNum(0))
Row24h == StoredRow(RawTime(Epoch - 24 * 3600), "partial", RawNum(50),
                    RawNum(600), RawNum(700), RawNum(501), RawNum(101))
Row48h == StoredRow(RawTime(Epoch - 48 * 3600), "down", RawNum(0),
                    RawNum(500), RawNum(500), RawNum(0 - 5), RawNum(100))
Row7d == StoredRow(RawTime(Epoch - 7 * 24 * 3600), "n/a", RawText,
                   RawText, RawNum(499), RawText, RawText)
RowNow == StoredRow(RawTime(0), "odd", RawNum(150),
                    RawNum(0 - 1), RawNum(501), RawNum(0), RawNum(150))
RowNoTime == StoredRow(RawNullTime, "up", RawNum(100),
                       RawNum(20), RawNum(30), RawNum(10), RawNum(0))
\* A row whose timestamp text cannot be parsed.
RowBadTime == StoredRow(RawBadTime, "up", RawNum(100),
                        RawNum(20), RawNum(30), RawNum(10), RawNum(0))

DataRows == {Row12h, Row24h, Row48h, Row7d, RowNow, RowNoTime, RowBadTime}

\* The table as the dashboard finds it: empty, holding the parseable rows in
\* the order they were written, or holding a row that cannot be parsed.
SeedStore == <<Row7d, Row48h, Row24h, Row12h, RowNoTime, RowNow>>
InitialStores == {<<>>, SeedStore, <<RowBadTime>>}

\* The row the probe process writes at time t.
ProbeRow(t) ==
    StoredRow(RawTime(t), "up", RawNum(100),
              RawNum(20), RawNum(30), RawNum(10), RawNum(0))

StorageModes == {"ok", "unreadable", "query_error"}

\* The page as laid out: nothing rendered yet.
NotRendered == [rendered |-> FALSE]

-----------------------------------------------------------------------------
(* The power-cycle script: cooldown file and device calls *)

COOLDOWN_PERIOD == 600
wait_time == 30
retry_attempts == 3

\* logs/cooldown.txt: absent, holding the integer timestamp of the last
\* cycle, or holding text int() cannot read.
NoFile == [exists |-> FALSE, kind |-> "none", v |-> 0]
FileWith(ts) == [exists |-> TRUE, kind |-> "int", v |-> ts]
GarbageFile == [exists |-> TRUE, kind |-> "garbage", v |-> 0]

\* is_in_cooldown() at time t.  Its first line uses the name os, which
\* raises NameError when the name is not bound; int() raises ValueError on
\* text that is no integer.
is_in_cooldown(file, t, os_bound) ==
    IF ~os_bound THEN [raised |-> TRUE, value |-> FALSE]
    ELSE IF ~file.exists THEN [raised |-> FALSE, value |-> FALSE]
    ELSE IF file.kind # "int" THEN [raised |-> TRUE, value |-> FALSE]
    ELSE [raised |-> FALSE, value |-> t - file.v < COOLDOWN_PERIOD]

\* update_cooldown_file() at time t.
update_cooldown_file(t) == FileWith(t)

\* What an awaited call of the device SDK can do: return, raise an error, or
\* raise asyncio.TimeoutError.
SdkOutcomes == {"ok", "error", "timeout"}

\* One call made by the run, in control_tapo ("main") or in handle_exception
\* ("retry"), with its outcome.
Call(name, phase, outcome) == [call |-> name, phase |-> phase, outcome |-> outcome]

\* The script before its first run: cooldown file f, and whether the name os
\* resolves in the module (the file binds asyncio, tapo, json, logging and
\* datetime only).
NotStarted(f, os_bound) ==
    [pc |-> "idle", os_bound |-> os_bound, file |-> f, file0 |-> f,
     started_at |-> 0, device_bound |-> FALSE, log |-> <<>>, attempt |-> 0,
     result |-> "none", runs |-> 0]

\* The position control_tapo continues at after a call with outcome o made
\* inside its try block: the next statement, or one of its except clauses.
AfterCall(o, next) ==
    CASE o = "ok" -> next
      [] o = "timeout" -> "except_timeout"
      [] OTHER -> "except_exception"

\* A failed attempt of handle_exception: the next attempt, or the return
\* after the last one.
RetryFailed(p) ==
    IF p.attempt = retry_attempts
    THEN [p EXCEPT !.pc = "done", !.result = "returned"]
    ELSE [p EXCEPT !.pc = "retry_refresh_session", !.attempt = @ + 1]

-----------------------------------------------------------------------------
(* The dashboard: state after construction, and its events *)

Init ==
    /\ now = 0
    /\ ticks = 0
    /\ db \in {[mode |-> "ok", rows |-> r] : r \in InitialStores}
    /\ openConns = 0
    /\ cache = [k \in Keys |-> NoEntry]
    /\ dateRange = DefaultDateRange
    /\ metrics = DefaultMetrics
    /\ filteredData = <<>>
    /\ render = NotRendered
    /\ nClicks = 0
    /\ powerStatus = NoStatus
    /\ last = Idle
    /\ plug = NotStarted(NoFile, FALSE)

\* Whether the backend answers cache.get and cache.set during one call.
BackendAnswers == {<<TRUE, TRUE>>, <<TRUE, FALSE>>, <<FALSE, FALSE>>}

NoOutcome == [kind |-> "exit_0", stderr |-> ""]

\* Seconds between two events: just inside the cache timeout, or exactly it.
TickSteps == {299, 300}

\* Time passes until the next event.
Elapse(step) ==
    /\ ticks < MaxTicks
    /\ now' = now + step
    /\ ticks' = ticks + 1
    /\ UNCHANGED plug

\* The probe process writes a record stamped with the current time.
ProbeInsert ==
    /\ \E step \in TickSteps : Elapse(step)
    /\ db' = [db EXCEPT !.rows = Append(@, ProbeRow(now'))]
    /\ cache' = Expire(cache, now')
    /\ last' = [Idle EXCEPT !.event = "probe", !.at = now']
    /\ UNCHANGED <<openConns, dateRange, metrics, filteredData, render,
                   nClicks, powerStatus>>

\* The store becomes unreadable, loses its table, or is repaired.
StorageFault ==
    /\ \E step \in TickSteps : Elapse(step)
    /\ \E m \in StorageModes \ {db.mode} : db' = [db EXCEPT !.mode = m]
    /\ cache' = Expire(cache, now')
    /\ last' = [Idle EXCEPT !.event = "storage", !.at = now']
    /\ UNCHANGED <<openConns, dateRange, metrics, filteredData, render,
                   nClicks, powerStatus>>

\* The runtime finalizes the connection objects nothing refers to any more.
Finalize ==
    /\ openConns > 0
    /\ \E step \in TickSteps : Elapse(step)
    /\ openConns' = 0
    /\ cache' = Expire(cache, now')
    /\ last' = [Idle EXCEPT !.event = "finalize", !.at = now']
    /\ UNCHANGED <<db, dateRange, metrics, filteredData, render, nClicks,
                   powerStatus>>

\* The page is (re)loaded: the layout's values, then every callback once.
PageLoad ==
    /\ \E step \in TickSteps : Elapse(step)
    /\ \E b \in BackendAnswers :
          Dispatch("page_load", AllInputs, now', DefaultDateRange,
                   DefaultMetrics, 0, <<>>, b[1], b[2], NoOutcome)
    /\ dateRange' = DefaultDateRange
    /\ metrics' = DefaultMetrics
    /\ nClicks' = 0
    /\ UNCHANGED db

\* dcc.Interval fires, 30 minutes after the last event.
IntervalTick ==
    /\ Elapse(INTERVAL_SECONDS)
    /\ \E b \in BackendAnswers :
          Dispatch("interval", {"interval-component"}, now', dateRange,
                   metrics, nClicks, filteredData, b[1], b[2], NoOutcome)
    /\ UNCHANGED <<db, dateRange, metrics, nClicks>>

\* The user picks another window in the dropdown.
DateRangeChange ==
    /\ \E step \in TickSteps : Elapse(step)
    /\ \E r \in DateRanges \ {dateRange} :
          /\ dateRange' = r
          /\ \E b \in BackendAnswers :
                Dispatch("date_range", {"date-range-dropdown"}, now', r,
                         metrics, nClicks, filteredData, b[1], b[2], NoOutcome)
    /\ UNCHANGED <<db, metrics, nClicks>>

\* The user ticks or unticks one latency metric.
MetricsChange ==
    /\ \E step \in TickSteps : Elapse(step)
    /\ \E x \in LatencyMetrics :
          LET m == IF x \in metrics THEN metrics \ {x} ELSE metrics \cup {x}
          IN /\ metrics' = m
             /\ Dispatch("metrics", {"latency-metrics-checkbox"}, now',
                         dateRange, m, nClicks, filteredData, TRUE, TRUE,
                         NoOutcome)
    /\ UNCHANGED <<db, dateRange, nClicks>>

\* The user presses the power-cycle button.
PowerCycleClick ==
    /\ \E step \in TickSteps : Elapse(step)
    /\ nClicks' = nClicks + 1
    /\ \E o \in PowerOutcomes :
          Dispatch("click", {"power-cycle-button"}, now', dateRange, metrics,
                   nClicks + 1, filteredData, TRUE, TRUE, o)
    /\ UNCHANGED <<db, dateRange, metrics>>

Next ==
    \/ ProbeInsert
    \/ StorageFault
    \/ Finalize
    \/ PageLoad
    \/ IntervalTick
    \/ DateRangeChange
    \/ MetricsChange
    \/ PowerCycleClick

Spec == Init /\ [][Next]_vars

-----------------------------------------------------------------------------
(* The data functions on their own: parse_log, filter_data_by_date and       *)
(* update_dashboard applied to every store of up to MaxRows rows.            *)

RECURSIVE SeqsUpTo(_, _)
SeqsUpTo(S, n) ==
    IF n = 0 THEN {<<>>}
    ELSE LET shorter == SeqsUpTo(S, n - 1)
         IN shorter \cup {Append(q, x) : q \in shorter, x \in S}

\* An unrecognized selector besides the five of the dropdown.
Selectors == DateRanges \cup {"last_year"}

InitData ==
    /\ now = Epoch
    /\ ticks = 0
    /\ db \in {[mode |-> m, rows |-> r] :
                  m \in StorageModes, r \in SeqsUpTo(DataRows, MaxRows)}
    /\ openConns = 0
    /\ cache = [k \in Keys |-> NoEntry]
    /\ dateRange = DefaultDateRange
    /\ metrics = DefaultMetrics
    /\ filteredData = <<>>
    /\ render = NotRendered
    /\ nClicks = 0
    /\ powerStatus = NoStatus
    /\ last = Idle
    /\ plug = NotStarted(NoFile, FALSE)

\* parse_log(db_path) is called.
CallParseLog ==
    /\ last.event = "none"
    /\ LET p == parse_log(db)
       IN /\ last' = [event |-> "parse_log", out |-> p] @@ Idle
          /\ openConns' = p.opened - p.closed
    /\ UNCHANGED <<now, ticks, db, cache, dateRange, metrics, filteredData,
                   render, nClicks, powerStatus, plug>>

\* filter_data_by_date(parse_log(db_path), date_range) is called at time t.
CallFilter ==
    /\ last.event = "none"
    /\ \E r \in Selectors, t \in {Epoch, Epoch + 1} :
          /\ now' = t
          /\ dateRange' = r
          /\ LET log_data == parse_log(db).df
             IN last' = [event |-> "filter", input |-> log_data,
                         out |-> filter_data_by_date(log_data, r, t)] @@ Idle
    /\ UNCHANGED <<ticks, db, openConns, cache, metrics, filteredData, render,
                   nClicks, powerStatus, plug>>

\* update_dashboard(records, selected) is called on the records of the store,
\* with every column or with the cached ones.
CallUpdate ==
    /\ last.event = "none"
    /\ \E m \in SUBSET LatencyMetrics, cols \in {AllColumns, columns_to_cache} :
          LET data == to_dict_records(parse_log(db).df, cols)
              u == update_dashboard(data, m)
          IN /\ metrics' = m
             /\ filteredData' = data
             /\ render' = u
             /\ last' = [event |-> "update", updated |-> TRUE,
                         update_raised |-> u.raised] @@ Idle
    /\ UNCHANGED <<now, ticks, db, openConns, cache, dateRange, nClicks,
                   powerStatus, plug>>

NextData ==
    \/ CallParseLog
    \/ CallFilter
    \/ CallUpdate

SpecData == InitData /\ [][NextData]_vars

-----------------------------------------------------------------------------
(* The power-cycle script, run up to MaxRuns times: asyncio.run(control_tapo()) *)

DashboardVars ==
    <<ticks, db, openConns, cache, dateRange, metrics, filteredData, render,
      nClicks, powerStatus, last>>

\* The cooldown file before the first run; the first run starts at 599 or 600.
InitialFiles == {NoFile, FileWith(0), GarbageFile}

\* Seconds between the end of one run and the start of the next: just inside
\* the cooldown period, or exactly it.
RunGaps == {COOLDOWN_PERIOD - 1, COOLDOWN_PERIOD}

InitPlug ==
    /\ now = 0
    /\ ticks = 0
    /\ db = [mode |-> "ok", rows |-> <<>>]
    /\ openConns = 0
    /\ cache = [k \in Keys |-> NoEntry]
    /\ dateRange = DefaultDateRange
    /\ metrics = DefaultMetrics
    /\ filteredData = <<>>
    /\ render = NotRendered
    /\ nClicks = 0
    /\ powerStatus = NoStatus
    /\ last = Idle
    /\ plug \in {NotStarted(f, b) : f \in InitialFiles, b \in BOOLEAN}

\* The plug state after the call `name` was made with outcome o.
Logged(name, o) ==
    [plug EXCEPT !.log = Append(@, Call(name, IF plug.attempt = 0 THEN "main" ELSE "retry", o))]

\* The script is started.
RunScript ==
    /\ plug.pc \in {"idle", "done"}
    /\ plug.runs < MaxRuns
    /\ \E gap \in RunGaps : now' = now + gap
    /\ plug' = [plug EXCEPT !.pc = "is_in_cooldown", !.file0 = plug.file,
                            !.started_at = now', !.device_bound = FALSE,
                            !.log = <<>>, !.attempt = 0, !.result = "none",
                            !.runs = @ + 1]
    /\ UNCHANGED DashboardVars

\* if is_in_cooldown(): return
CheckCooldown ==
    /\ plug.pc = "is_in_cooldown"
    /\ LET c == is_in_cooldown(plug.file, now, plug.os_bound)
       IN plug' = IF c.raised THEN [plug EXCEPT !.pc = "except_exception"]
                  ELSE IF c.value
                  THEN [plug EXCEPT !.pc = "done", !.result = "returned"]
                  ELSE [plug EXCEPT !.pc = "get_device"]
    /\ UNCHANGED <<now, DashboardVars>>

\* client = tapo.ApiClient(...); device = await client.p100(device_ip)
GetDevice ==
    /\ plug.pc = "get_device"
    /\ \E o \in SdkOutcomes :
          plug' = [Logged("p100", o) EXCEPT
                      !.device_bound = (o = "ok"),
                      !.pc = AfterCall(o, "refresh_session")]
    /\ UNCHANGED <<now, DashboardVars>>

\* await device.refresh_session()
RefreshSession ==
    /\ plug.pc = "refresh_session"
    /\ \E o \in SdkOutcomes :
          plug' = [Logged("refresh_session", o) EXCEPT !.pc = AfterCall(o, "off")]
    /\ UNCHANGED <<now, DashboardVars>>

\* await device.off()
TurnOff ==
    /\ plug.pc = "off"
    /\ \E o \in SdkOutcomes :
          plug' = [Logged("off", o) EXCEPT !.pc = AfterCall(o, "sleep")]
    /\ UNCHANGED <<now, DashboardVars>>

\* await asyncio.sleep(wait_time)
Wait ==
    /\ plug.pc = "sleep"
    /\ now' = now + wait_time
    /\ plug' = [Logged("sleep", "ok") EXCEPT !.pc = "on"]
    /\ UNCHANGED DashboardVars

\* await device.on()
TurnOn ==
    /\ plug.pc = "on"
    /\ \E o \in SdkOutcomes :
          plug' = [Logged("on", o) EXCEPT
                      !.pc = AfterCall(o, "update_cooldown_file")]
    /\ UNCHANGED <<now, DashboardVars>>

\* update_cooldown_file(): the file is written, or open() raises OSError.
UpdateCooldownFile ==
    /\ plug.pc = "update_cooldown_file"
    /\ \E o \in {"ok", "error"} :
          plug' = [Logged("update_cooldown_file", o) EXCEPT
                      !.file = IF o = "ok" THEN update_cooldown_file(now) ELSE @,
                      !.pc = AfterCall(o, "print_device_info")]
    /\ UNCHANGED <<now, DashboardVars>>

\* await print_device_info(device), which catches what the query raises;
\* control_tapo or handle_exception returns after it.
PrintDeviceInfo ==
    /\ plug.pc = "print_device_info"
    /\ \E o \in SdkOutcomes :
          plug' = [Logged("get_device_info_json", o) EXCEPT
                      !.pc = "done", !.result = "returned"]
    /\ UNCHANGED <<now, DashboardVars>>

\* except asyncio.TimeoutError: log and return.
ExceptTimeout ==
    /\ plug.pc = "except_timeout"
    /\ plug' = [plug EXCEPT !.pc = "done", !.result = "returned"]
    /\ UNCHANGED <<now, DashboardVars>>

\* except Exception: await handle_exception(device).  Reading the local
\* device before it was assigned raises UnboundLocalError out of the run.
ExceptException ==
    /\ plug.pc = "except_exception"
    /\ plug' = IF plug.device_bound
               THEN [plug EXCEPT !.pc = "retry_refresh_session", !.attempt = 1]
               ELSE [plug EXCEPT !.pc = "done", !.result = "raised"]
    /\ UNCHANGED <<now, DashboardVars>>

\* handle_exception: await device.refresh_session()
RetryRefreshSession ==
    /\ plug.pc = "retry_refresh_session"
    /\ \E o \in SdkOutcomes :
          plug' = IF o = "ok"
                  THEN [Logged("refresh_session", o) EXCEPT !.pc = "retry_on"]
                  ELSE RetryFailed(Logged("refresh_session", o))
    /\ UNCHANGED <<now, DashboardVars>>

\* handle_exception: await device.on()
RetryTurnOn ==
    /\ plug.pc = "retry_on"
    /\ \E o \in SdkOutcomes :
          plug' = IF o = "ok"
                  THEN [Logged("on", o) EXCEPT !.pc = "print_device_info"]
                  ELSE RetryFailed(Logged("on", o))
    /\ UNCHANGED <<now, DashboardVars>>

NextPlug ==
    \/ RunScript
    \/ CheckCooldown
    \/ GetDevice
    \/ RefreshSession
    \/ TurnOff
    \/ Wait
    \/ TurnOn
    \/ UpdateCooldownFile
    \/ PrintDeviceInfo
    \/ ExceptTimeout
    \/ ExceptException
    \/ RetryRefreshSession
    \/ RetryTurnOn

SpecPlug == InitPlug /\ [][NextPlug]_vars

-----------------------------------------------------------------------------
(* Properties of the refresh pipeline, checked under Spec *)

\* The key of the last fetch_data call.
LastKey == <<"logs/internet_status.db", last.date_range>>

\* C1: a get_filtered_data call whose lookup the backend answers, made less
\* than 300 seconds after the call that stored the entry of the same
\* (db_path, date_range) key, returns the stored result, does not call
\* parse_log and leaves the entry alone; parse_log is called exactly when no
\* entry of the key is that young.
C1_HitWithinTimeoutSkipsReader ==
    [][ (last'.fetched /\ last'.lookup_ok) =>
          LET key == <<"logs/internet_status.db", last'.date_range>>
              young == /\ cache[key].present
                       /\ last'.at - cache[key].stored_at < 300
          IN /\ young => /\ filteredData' = cache[key].value
                         /\ last'.parse_calls = 0
                         /\ cache'[key] = cache[key]
             /\ ~young => last'.parse_calls >= 1 ]_vars

\* C1 witness: a call served from an entry stored 299 seconds earlier, with
\* records in it.
C1_Witness ==
    /\ last.fetched /\ last.hit /\ last.parse_calls = 0
    /\ cache[LastKey].present
    /\ last.at - cache[LastKey].stored_at = 299
    /\ filteredData # <<>>
    /\ filteredData = cache[LastKey].value

\* The result of the uncached path of get_filtered_data (its except branch):
\* parse, filter, every column kept.
UncachedResult(d, date_range, t) ==
    get_filtered_data_fallback(d, date_range, t, 0, 0, 0).rv

\* C2: when the backend fails on the lookup or on the store, the call returns
\* the result of the uncached path (every column kept), does not raise and
\* writes nothing to the cache.
C2_BackendFailureUsesUncachedPath ==
    (last.fetched /\ (~last.lookup_ok \/ (~last.hit /\ ~last.store_ok))) =>
        /\ ~last.fetch_raised
        /\ ~last.wrote
        /\ filteredData = UncachedResult(db, last.date_range, last.at)

\* C3: a change of the metric selection runs update_dashboard alone, on the
\* dataset 'filtered-data' holds: no fetch_data, no get_filtered_data, no
\* parse_log; the stored dataset is the same and no cache entry is written
\* or altered.
C3_MetricChangeOnlyRerendersStoredData ==
    [][ last'.event = "metrics" =>
          /\ ~last'.fetched /\ last'.parse_calls = 0 /\ ~last'.wrote
          /\ last'.updated
          /\ filteredData' = filteredData
          /\ render' = update_dashboard(filteredData, metrics')
          /\ \A k \in Keys : cache'[k] = cache[k] \/ cache'[k] = NoEntry
          /\ \A k \in Keys :
                (cache[k].present /\ now' - cache[k].stored_at < 300)
                    => cache'[k] = cache[k] ]_vars

\* C3 witness: the metric selection changed while a dataset was stored and
\* cached.
C3_Witness ==
    /\ last.event = "metrics" /\ last.updated
    /\ filteredData # <<>>
    /\ \E k \in Keys : cache[k].present
    /\ metrics # DefaultMetrics

\* The render with nothing in it: three empty charts, empty table, 0/0/0.
AllEmptyRender ==
    [raised |-> FALSE, success_fig |-> [empty |-> TRUE],
     latency_fig |-> [empty |-> TRUE], packetloss_fig |-> [empty |-> TRUE],
     table_data |-> <<>>, full_up |-> 0, partial_up |-> 0, down |-> 0]

\* C4: no callback of the refresh pipeline raises, whatever the store, the
\* window, the metrics and the backend do; when the read of the store fails,
\* and likewise when the table has no rows, the dataset is empty and the
\* render is the all-empty one.
C4_PipelineNeverRaises ==
    /\ ~last.fetch_raised
    /\ ~last.update_raised
    /\ last.fetched => last.updated
    /\ (last.fetched /\ last.read_failed) =>
          (filteredData = <<>> /\ render = AllEmptyRender)
    /\ (last.fetched /\ ~last.hit /\ db.mode = "ok" /\ db.rows = <<>>) =>
          (filteredData = <<>> /\ render = AllEmptyRender)

\* C4 witness: a refresh whose read of the store failed while the backend did
\* not answer the lookup, rendered all-empty.
C4_Witness ==
    /\ last.fetched /\ last.read_failed /\ ~last.lookup_ok
    /\ last.updated /\ render = AllEmptyRender

-----------------------------------------------------------------------------
(* Properties of the data functions, checked under SpecData *)

\* The rows of the dataset whose success is a number.
ValuedSet == {i \in 1..Len(filteredData) : ~filteredData[i].success.nan}

FullSet == {i \in ValuedSet : filteredData[i].success.v = 100}
PartialSet ==
    {i \in ValuedSet :
        filteredData[i].success.v > 0 /\ filteredData[i].success.v < 100}
DownSet == {i \in ValuedSet : filteredData[i].success.v = 0}
MissingSet == {i \in 1..Len(filteredData) : filteredData[i].success.nan}
OutOfRangeSet ==
    {i \in ValuedSet :
        filteredData[i].success.v < 0 \/ filteredData[i].success.v > 100}

\* update_dashboard has rendered a non-empty dataset.
Rendered ==
    /\ last.event = "update" /\ ~last.update_raised
    /\ filteredData # <<>>

\* The counts shown are the sizes of the three row sets, which are pairwise
\* disjoint and add up to no more than the number of records.
CountsPartition ==
    /\ render.full_up = Cardinality(FullSet)
    /\ render.partial_up = Cardinality(PartialSet)
    /\ render.down = Cardinality(DownSet)
    /\ FullSet \cap PartialSet = {}
    /\ FullSet \cap DownSet = {}
    /\ PartialSet \cap DownSet = {}
    /\ render.full_up + render.partial_up + render.down <= Len(filteredData)

WindowLength(selector) ==
    CASE selector = "last_12_hours" -> 43200
      [] selector = "last_24_hours" -> 86400
      [] selector = "last_48_hours" -> 172800
      [] selector = "last_7_days"   -> 604800

IsBounded(selector) ==
    selector \in {"last_12_hours", "last_24_hours", "last_48_hours", "last_7_days"}

\* C6: on a dataset with a timestamp column, a bounded selector w at time T
\* returns exactly the records stamped T - w or later, in their order; any
\* other selector returns the input as it is.
C6_FilterKeepsExactlyTheWindow ==
    last.event = "filter" =>
        IF IsBounded(dateRange)
        THEN "timestamp" \in last.input.columns =>
                LET InWindow(row) ==
                        /\ ~row.timestamp.nat
                        /\ row.timestamp.t >= now - WindowLength(dateRange)
                IN /\ ~last.out.raised
                   /\ last.out.df.rows = SelectSeq(last.input.rows, InWindow)
        ELSE /\ ~last.out.raised
             /\ last.out.df = last.input
             /\ Len(last.out.df.rows) = Len(last.input.rows)

\* C6 witness: a bounded filter that keeps a record stamped exactly T - w and
\* drops another.
C6_Witness ==
    /\ last.event = "filter" /\ IsBounded(dateRange)
    /\ "timestamp" \in last.input.columns
    /\ Len(last.out.df.rows) < Len(last.input.rows)
    /\ \E i \in 1..Len(last.out.df.rows) :
          last.out.df.rows[i].timestamp
              = [nat |-> FALSE, t |-> now - WindowLength(dateRange)]

\* What a stored cell must read after normalization with upper bound cap.
Capped(raw, cap) ==
    IF raw.kind # "num" THEN [nan |-> TRUE, v |-> 0]
    ELSE IF raw.v > cap THEN [nan |-> FALSE, v |-> cap]
    ELSE [nan |-> FALSE, v |-> raw.v]

\* C7: a successful parse_log returns one record per stored row; each latency
\* is 500 when the stored value is above 500 and the stored value otherwise
\* (negatives included), packet_loss is 100 when above 100, and a cell that
\* is not a number is missing in that field alone.
C7_NormalizationCapsAndKeepsRows ==
    (last.event = "parse_log" /\ ~last.out.failed) =>
        /\ ~last.out.raised
        /\ Len(last.out.df.rows) = Len(db.rows)
        /\ \A i \in 1..Len(db.rows) :
              LET raw == db.rows[i]
                  row == last.out.df.rows[i]
              IN /\ row.avg_latency_ms = Capped(raw.avg_latency_ms, 500)
                 /\ row.max_latency_ms = Capped(raw.max_latency_ms, 500)
                 /\ row.min_latency_ms = Capped(raw.min_latency_ms, 500)
                 /\ row.packet_loss = Capped(raw.packet_loss, 100)
                 /\ row.success.nan = (raw.success_percentage.kind # "num")
                 /\ ~row.success.nan => row.success.v = raw.success_percentage.v
                 /\ row.status_message = raw.status

\* C7 witness: a successful parse of three rows, with a latency above 500, a
\* negative latency and a cell that is not a number.
C7_Witness ==
    /\ last.event = "parse_log" /\ ~last.out.failed
    /\ Len(last.out.df.rows) = 3
    /\ \E i, j, k \in 1..3 :
          /\ db.rows[i].avg_latency_ms = [kind |-> "num", v |-> 600]
          /\ last.out.df.rows[i].avg_latency_ms = [nan |-> FALSE, v |-> 500]
          /\ last.out.df.rows[j].min_latency_ms = [nan |-> FALSE, v |-> 0 - 5]
          /\ last.out.df.rows[k].packet_loss.nan

-----------------------------------------------------------------------------
(* Properties of the device action, the connections and the delivered        *)
(* dataset, checked under Spec                                               *)

\* C8: trigger_power_cycle never raises; with n_clicks > 0 a command that
\* succeeds gives the text with the completion time and a command that fails
\* gives the failure text with the captured error; with n_clicks = 0 no
\* command runs and the text is empty.
C8_PowerCycleAlwaysReports ==
    last.power_called =>
        /\ ~last.power_raised
        /\ (last.power_ran /\ last.outcome = "exit_0") =>
              powerStatus = [kind |-> "triggered", at |-> last.at, stderr |-> ""]
        /\ (last.power_ran /\ last.outcome # "exit_0") =>
              powerStatus = [kind |-> "failed", at |-> 0, stderr |-> last.stderr]
        /\ last.power_ran = (nClicks > 0)
        /\ ~last.power_ran =>
              powerStatus = [kind |-> "empty", at |-> 0, stderr |-> ""]

\* C9: every parse_log call has closed the connection it opened when it
\* returns, and no connection of an earlier call is open.
C9_ConnectionClosedOnEveryReturn ==
    /\ ~last.conn_left_open
    /\ openConns = 0

\* The timestamps of the records delivered to the dashboard.
DeliveredTimes ==
    [i \in 1..Len(filteredData) |-> filteredData[i].timestamp.t]

\* The timestamps of the rows among the first n of the store that are stamped
\* at `cutoff` or later, when the store can be read in state `mode`.
StoredTimesFrom(mode, n, cutoff) ==
    LET rows == SubSeq(db.rows, 1, n)
        readable == /\ mode = "ok"
                    /\ \A i \in 1..n : rows[i].timestamp.kind # "garbage"
        InWindow(raw) == raw.timestamp.kind = "time" /\ raw.timestamp.t >= cutoff
        kept == SelectSeq(rows, InWindow)
    IN IF readable THEN [i \in 1..Len(kept) |-> kept[i].timestamp.t] ELSE <<>>

BoundedFetch ==
    /\ last.fetched /\ ~last.fetch_raised
    /\ IsBounded(last.date_range)

\* C10 as stated: the dataset a fetch_data call at time t delivers for a
\* bounded window w is exactly the stored records stamped t - w or later,
\* served from the cache or not.
C10_DeliveredIsWindowAtCallTime ==
    BoundedFetch =>
        (\A i \in 1..Len(filteredData) : ~filteredData[i].timestamp.nat)
        /\ DeliveredTimes
              = StoredTimesFrom(db.mode, Len(db.rows),
                                last.at - WindowLength(last.date_range))

\* C10 amended: the dataset delivered at time t is exactly the records that
\* could be read from the store at time t0 and were stamped t0 - w or later,
\* where t0 is the time the result was computed: t0 = t when the call runs
\* the function, and t - 300 < t0 <= t when it is served from the cache.
C10_DeliveredIsWindowAtComputeTime ==
    BoundedFetch =>
        LET entry == cache[LastKey]
            t0 == IF last.hit THEN entry.stored_at ELSE last.at
            mode0 == IF last.hit THEN entry.source.mode ELSE db.mode
            n0 == IF last.hit THEN entry.source.n ELSE Len(db.rows)
        IN /\ t0 <= last.at /\ last.at - t0 < 300
           /\ \A i \in 1..Len(filteredData) : ~filteredData[i].timestamp.nat
           /\ DeliveredTimes
                 = StoredTimesFrom(mode0, n0, t0 - WindowLength(last.date_range))

\* C10 witness: a call served from the cache delivers a record that has left
\* the window by the time of the call.
C10_Witness ==
    /\ BoundedFetch /\ last.hit
    /\ \E i \in 1..Len(filteredData) :
          filteredData[i].timestamp.t < last.at - WindowLength(last.date_range)

\* The numbers in the series of the selected latency metrics of the dataset.
SelectedValues ==
    {filteredData[q[1]][q[2]].v :
        q \in {r \in (1..Len(filteredData)) \X metrics :
                  ~filteredData[r[1]][r[2]].nan}}

\* M: the largest of them.
MaxSelected == CHOOSE x \in SelectedValues : \A y \in SelectedValues : y <= x

\* With no metric selected the latency chart has no series, carries the
\* placeholder annotation and has y-range [0, 500] (upper ends in tenths).
PlaceholderChart ==
    /\ render.latency_fig.traces = {}
    /\ render.latency_fig.annotated
    /\ render.latency_fig.range_hi = Num(10 * 500)

\* The latency chart has one series per selected metric and its upper end is
\* min(1.1 x M, 500).
RangeFollowsFormula ==
    /\ render.latency_fig.traces = metrics
    /\ ~render.latency_fig.annotated
    /\ ~render.latency_fig.range_hi.nan
    /\ render.latency_fig.range_hi.v = Min2(11 * MaxSelected, 10 * 500)
    /\ render.latency_fig.range_hi.v <= 10 * 500

\* C11 as stated: for a non-empty dataset the latency y-range is
\* [0, min(1.1 x M, 500)], M the maximum over the selected series, its upper
\* end never above 500 and never below 0; with no metric selected the chart
\* is the placeholder with y-range [0, 500].
C11_LatencyRangeWithinZeroAndCap ==
    Rendered =>
        /\ metrics = {} => PlaceholderChart
        /\ (metrics # {} /\ SelectedValues # {}) =>
              /\ RangeFollowsFormula
              /\ render.latency_fig.range_hi.v >= 0

\* C11 amended: when some selected series holds a number, the upper end is
\* min(1.1 x M, 500) and never above 500; it is at or above 0 exactly when M
\* is, negative latencies not being clamped; with no metric selected the chart
\* is the placeholder with y-range [0, 500].
C11_LatencyRangeCappedNotFloored ==
    Rendered =>
        /\ metrics = {} => PlaceholderChart
        /\ (metrics # {} /\ SelectedValues # {}) =>
              /\ RangeFollowsFormula
              /\ render.latency_fig.range_hi.v >= 0 <=> MaxSelected >= 0

\* C11 witness: a render whose selected latency values are all negative, the
\* upper end of the y-range below 0.
C11_Witness ==
    /\ Rendered
    /\ metrics # {} /\ SelectedValues # {}
    /\ MaxSelected < 0
    /\ render.latency_fig.range_hi.v < 0

-----------------------------------------------------------------------------
(* Properties of the power-cycle script, checked under SpecPlug *)

\* The cooldown file at the start of the run holds a timestamp.
HoldsTimestamp == plug.file0.exists /\ plug.file0.kind = "int"

\* ... less than COOLDOWN_PERIOD before the start of the run.
InCooldown == HoldsTimestamp /\ plug.started_at - plug.file0.v < 600

\* The file is absent, or its timestamp is at least 600 seconds old.
CooldownOver ==
    \/ ~plug.file0.exists
    \/ HoldsTimestamp /\ plug.started_at - plug.file0.v >= 600

\* The names of the calls control_tapo itself has made, in order.
MainCalls ==
    LET InMain(c) == c.phase = "main"
        m == SelectSeq(plug.log, InMain)
    IN [i \in 1..Len(m) |-> m[i].call]

\* The order of the calls of a power cycle.
CycleOrder ==
    <<"p100", "refresh_session", "off", "sleep", "on", "update_cooldown_file",
      "get_device_info_json">>

\* device.on() of control_tapo has returned.
MainOnSucceeded ==
    \E i \in 1..Len(plug.log) : plug.log[i] = Call("on", "main", "ok")

\* C12: a run that finds the cooldown file stamped less than 600 seconds ago
\* sends no off() and no on() and leaves the file as it was; a run that finds
\* no file, or a timestamp at least 600 seconds old, goes on to the device and
\* calls refresh_session, off, the wait and on in that order; the cooldown
\* timestamp is written only after on() has succeeded.
C12_CooldownGatesThePowerCycle ==
    plug.pc # "idle" =>
        /\ InCooldown =>
              /\ \A i \in 1..Len(plug.log) : plug.log[i].call \notin {"off", "on"}
              /\ plug.file = plug.file0
        /\ (CooldownOver /\ plug.pc = "done") =>
              /\ MainCalls # <<>>
              /\ MainCalls = SubSeq(CycleOrder, 1, Len(MainCalls))
        /\ plug.file # plug.file0 => MainOnSucceeded

\* device.off() of control_tapo has returned.
MainOffSucceeded ==
    \E i \in 1..Len(plug.log) : plug.log[i] = Call("off", "main", "ok")

\* device.on() has returned, in control_tapo or in handle_exception.
OnSucceeded ==
    \E i \in 1..Len(plug.log) :
        plug.log[i].call = "on" /\ plug.log[i].outcome = "ok"

\* The recovery attempts that failed: one failed call ends an attempt.
FailedAttempts ==
    {i \in 1..Len(plug.log) :
        plug.log[i].phase = "retry" /\ plug.log[i].outcome # "ok"
        /\ plug.log[i].call \in {"refresh_session", "on"}}

====
